---- MODULE Spec2Model ----
(***************************************************************************)
(* A model of the Talkify text-to-speech client (class Talkify and class   *)
(* TalkifyError).  One client object, its constructor, and its three       *)
(* asynchronous operations speech(), availableVoices() and                 *)
(* detectLanguage(), each of which sends one request through the axios     *)
(* connector and is later resolved or rejected by the transport.           *)
(*                                                                         *)
(* Encoding of JavaScript values.  An optional value is a sequence of      *)
(* length 0 or 1: <<>> is undefined (an omitted property, an omitted       *)
(* argument), <<v>> is the value v.  A voice selector (Voice | string) is  *)
(* a record tagged with its typeof.                                        *)
(***************************************************************************)
EXTENDS Integers, Sequences, FiniteSets, TLC

\* ------------------------------------------------------------------ bounds

\* Number of invocation slots: operations that may be pending at once.
MaxCalls == 2

\* Largest number of records in the provider's reply to the voices request.
MaxVoices == 2

Calls == 1..MaxCalls

\* --------------------------------------------------- JavaScript primitives

None == <<>>

Some(v) == <<v>>

\* a ?? b on optional values
Coalesce(a, b) == IF a # None THEN a ELSE b

\* truthiness of an optional string: undefined and "" are falsy
TruthyString(a) == a # None /\ a[1] # ""

\* truthiness of an optional number: undefined and 0 are falsy
TruthyNumber(a) == a # None /\ a[1] # 0

\* the test of an optional boolean with its negation lost
FalsyBoolean(a) == ~(a # None /\ a[1])

\* truthiness of an optional boolean
TruthyBoolean(a) == a # None /\ a[1]

\* String.prototype.toLowerCase on the strings that occur in the model
LowerCaseTable ==
  [s \in {"English", "ENGLISH", "French", "MP3", "WAV", "Wav"} |->
     CASE s = "English" -> "english"
       [] s = "ENGLISH" -> "english"
       [] s = "French"  -> "french"
       [] s = "MP3"     -> "mp3"
       [] s = "WAV"     -> "wav"
       [] s = "Wav"     -> "wav"]

toLowerCase(s) == IF s \in DOMAIN LowerCaseTable THEN LowerCaseTable[s] ELSE s

\* formats.map((format) => format.toLowerCase())
RECURSIVE mapToLowerCase(_)
mapToLowerCase(formats) ==
  IF formats = <<>> THEN <<>>
  ELSE <<toLowerCase(Head(formats))>> \o mapToLowerCase(Tail(formats))

\* ------------------------------------------------------------ TalkifyError

KeyMissing == "KEY_MISSING"

ValidationError == "VALIDATION_ERROR"

RequestError == "REQUEST_ERROR"

TalkifyErrors == {KeyMissing, ValidationError, RequestError}

\* new Error(message)
Error(message) == [class |-> "Error", name |-> "Error", message |-> message,
                   statusCode |-> None]

\* new TalkifyError(err, name, message, statusCode); name, message and
\* statusCode are optional arguments
TalkifyError(err, name, message, statusCode) ==
  [class      |-> "TalkifyError",
   name       |-> Coalesce(name, Some(err.name))[1],
   message    |-> Coalesce(message, Some(err.message))[1],
   statusCode |-> statusCode]

\* ---------------------------------------------------------- TalkifyOptions

OptionFields == {"key", "format", "fallbackLanguage", "voice", "rate", "ssml",
                 "whisper", "soft", "volume", "wordBreak", "pitch"}

\* the object {}: every property omitted
NoOptions == [f \in OptionFields |-> None]

\* a voice selector given as a plain string
VoiceString(s) == [typeof |-> "string", string |-> s, name |-> None]

\* a voice selector given as a Voice record (of which speech() reads .name)
VoiceObject(name) == [typeof |-> "object", string |-> "", name |-> name]

\* options?.f for an optional options argument
Get(options, f) == IF options = None THEN None ELSE options[1][f]

\* validateOptions as in the library's first version: plain Error objects
validateOptionsThrowsError(options) ==
  LET format    == Get(options, "format")
      volume    == Get(options, "volume")
      pitch     == Get(options, "pitch")
      wordBreak == Get(options, "wordBreak")
  IN  IF TruthyString(format) /\ format[1] \notin {"mp3", "wav"}
        THEN Some(Error("Invalid value for 'format' property. Available values: mp3,wav"))
      ELSE IF TruthyNumber(volume) /\ (volume[1] < -10 \/ volume[1] > 10)
        THEN Some(Error("Invalid range for 'volume' property. Min: -10, Max: 10."))
      ELSE IF TruthyNumber(pitch) /\ (pitch[1] < -10 \/ pitch[1] > 10)
        THEN Some(Error("Invalid range for 'pitch' property. Min: -10, Max: 10."))
      ELSE IF TruthyNumber(wordBreak) /\ (wordBreak[1] < 0 \/ wordBreak[1] > 1000)
        THEN Some(Error("Invalid range for 'wordBreak' property. Min: 0, Max: 1000."))
      ELSE None

\* validateOptions(options): the TalkifyError it throws, or None
validateOptions(options) ==
  LET validFormats == {"mp3", "wav"}
      format    == Get(options, "format")
      volume    == Get(options, "volume")
      pitch     == Get(options, "pitch")
      wordBreak == Get(options, "wordBreak")
  IN  IF TruthyString(format) /\ format[1] \notin validFormats
        THEN Some(TalkifyError(
               Error("Invalid value for 'format' property. Available values: mp3,wav"),
               Some(ValidationError), None, None))
      ELSE IF TruthyNumber(volume) /\ (volume[1] < -10 \/ volume[1] > 10)
        THEN Some(TalkifyError(
               Error("Invalid range for 'volume' property. Min: -10, Max: 10."),
               Some(ValidationError), None, None))
      ELSE IF TruthyNumber(pitch) /\ (pitch[1] < -10 \/ pitch[1] > 10)
        THEN Some(TalkifyError(
               Error("Invalid range for 'pitch' property. Min: -10, Max: 10."),
               Some(ValidationError), None, None))
      ELSE IF TruthyNumber(wordBreak) /\ (wordBreak[1] < 0 \/ wordBreak[1] > 1000)
        THEN Some(TalkifyError(
               Error("Invalid range for 'wordBreak' property. Min: 0, Max: 1000."),
               Some(ValidationError), None, None))
      ELSE None

\* ------------------------------------------------------------- constructor

KeyMissingMessage ==
  "Talkify API-key not given. Visit https://manage.talkify.net to create your own API-key."

\* axios.create({baseURL, headers: {'x-api-key': key}})
CreateConnector(key) == [baseURL |-> "https://talkify.net/api/", xApiKey |-> key]

\* a constructor that validates the options before it looks at the key
ConstructorValidatesFirst(options) ==
  LET invalid == validateOptions(options)
  IN  IF invalid # None
        THEN [thrown |-> invalid, defaultOptions |-> None, connector |-> None]
      ELSE IF ~TruthyString(Get(options, "key"))
        THEN [thrown |-> Some(TalkifyError(Error(KeyMissingMessage),
                                           Some(KeyMissing), None, None)),
              defaultOptions |-> None, connector |-> None]
      ELSE [thrown |-> None,
            defaultOptions |->
              Some([options[1] EXCEPT
                      !.format = Coalesce(options[1].format, Some("mp3")),
                      !.ssml   = Coalesce(options[1].ssml, Some(TRUE))]),
            connector |-> Some(CreateConnector(options[1].key[1]))]

\* The constructor's outcome: the error it throws (then no object exists), or
\* the fields of the new object.
Constructor(options) ==
  IF ~TruthyString(Get(options, "key"))
    THEN [thrown |-> Some(TalkifyError(Error(KeyMissingMessage),
                                       Some(KeyMissing), None, None)),
          defaultOptions |-> None, connector |-> None]
  ELSE LET invalid == validateOptions(options)
       IN  IF invalid # None
             THEN [thrown |-> invalid, defaultOptions |-> None, connector |-> None]
           ELSE [thrown |-> None,
                 defaultOptions |->
                   Some([options[1] EXCEPT
                           !.key    = options[1].key,
                           !.format = Coalesce(options[1].format, Some("mp3")),
                           !.ssml   = Coalesce(options[1].ssml, Some(TRUE))]),
                 connector |-> Some(CreateConnector(options[1].key[1]))]

\* ------------------------------------------------------------------ speech

\* the selector sent as it was given, as in the library's first version: a
\* Voice record then goes out as an object, not as its name
selectedVoiceAsGiven(selectedVoice) ==
  IF selectedVoice = None THEN None
  ELSE IF selectedVoice[1].typeof = "string" THEN Some(selectedVoice[1].string)
  ELSE Some("[object Object]")

\* the value sent as Voice: the selector itself when it is a string, else its
\* .name (undefined when there is no selector)
selectedVoiceName(selectedVoice) ==
  IF selectedVoice # None /\ selectedVoice[1].typeof = "string"
    THEN Some(selectedVoice[1].string)
  ELSE IF selectedVoice = None THEN None
  ELSE selectedVoice[1].name

\* a request body that takes every field from the overrides once an options
\* object is passed
speechBodyFromOptionsOnly(text, options, defaults) ==
  LET from == IF options # None THEN options[1] ELSE defaults
  IN  [Text             |-> text,
       Format           |-> from.format,
       FallbackLanguage |-> from.fallbackLanguage,
       Voice            |-> selectedVoiceName(from.voice),
       Rate             |-> from.rate,
       TextType         |-> IF ~TruthyBoolean(from.ssml) THEN 0 ELSE 1,
       Whisper          |-> from.whisper,
       Soft             |-> from.soft,
       Volume           |-> from.volume,
       WordBreakMs      |-> from.wordBreak,
       Pitch            |-> from.pitch]

\* the body of the POST speech/v1 request
speechBody(text, options, defaults) ==
  [Text             |-> text,
   Format           |-> Coalesce(Get(options, "format"), defaults.format),
   FallbackLanguage |-> Coalesce(Get(options, "fallbackLanguage"),
                                 defaults.fallbackLanguage),
   Voice            |-> selectedVoiceName(Coalesce(Get(options, "voice"),
                                                   defaults.voice)),
   Rate             |-> Coalesce(Get(options, "rate"), defaults.rate),
   TextType         |-> IF ~TruthyBoolean(Coalesce(Get(options, "ssml"),
                                                   defaults.ssml))
                          THEN 0 ELSE 1,
   Whisper          |-> Coalesce(Get(options, "whisper"), defaults.whisper),
   Soft             |-> Coalesce(Get(options, "soft"), defaults.soft),
   Volume           |-> Coalesce(Get(options, "volume"), defaults.volume),
   WordBreakMs      |-> Coalesce(Get(options, "wordBreak"), defaults.wordBreak),
   Pitch            |-> Coalesce(Get(options, "pitch"), defaults.pitch)]

\* ----------------------------------------------------------- catch blocks

SpeechFallback == "Could not synthetize the audio"

VoicesFallback == "Could not fetch the voices list"

DetectFallback == "Could not fetch the language detection response"

\* an AxiosError; response is undefined when no reply was received
AxiosError(response) ==
  [class |-> "AxiosError", name |-> "AxiosError",
   message |-> "Request failed", response |-> response]

\* a TypeError raised while reading a malformed reply
TypeError == [class |-> "TypeError", name |-> "TypeError",
              message |-> "Cannot read properties of undefined",
              response |-> None]

\* catch (_err): the TalkifyError thrown in place of err
Catch(err, fallback) ==
  TalkifyError(err, Some(RequestError),
               Coalesce(IF err.response = None THEN None
                        ELSE err.response[1].statusText,
                        Some(fallback)),
               IF err.response = None THEN None
               ELSE Some(err.response[1].status))

\* --------------------------------------------------------- availableVoices

\* the Voice pushed for one VoiceResponse
sanitizeVoice(rawVoice) ==
  [culture           |-> rawVoice.Culture,
   name              |-> rawVoice.Name,
   gender            |-> rawVoice.Gender,
   language          |-> rawVoice.Language,
   supportedFormats  |-> mapToLowerCase(rawVoice.SupportedFormats),
   description       |-> rawVoice.Description,
   isStandard        |-> rawVoice.IsStandard,
   isPremium         |-> rawVoice.IsPremium,
   isExclusive       |-> rawVoice.IsExclusive,
   isNeural          |-> rawVoice.IsNeural,
   canUseSpeechMarks |-> rawVoice.CanUseSpeechMarks,
   canWhisper        |-> rawVoice.CanWhisper,
   canUseWordBreak   |-> rawVoice.CanUseWordBreak,
   canSpeakSoftly    |-> rawVoice.CanSpeakSoftly,
   canUseVolume      |-> rawVoice.CanUseVolume,
   canUsePitch       |-> rawVoice.CanUsePitch]

\* response.data.forEach(...) with a comparison that does not fold case
RECURSIVE sanitizeCaseSensitive(_, _, _)
sanitizeCaseSensitive(data, language, voices) ==
  IF data = <<>> THEN [threw |-> FALSE, voices |-> voices]
  ELSE LET rawVoice == Head(data)
       IN  IF TruthyString(language) /\ rawVoice.Language = None
             THEN [threw |-> TRUE, voices |-> voices]
           ELSE IF TruthyString(language)
                   /\ rawVoice.Language[1] # language[1]
             THEN sanitizeCaseSensitive(Tail(data), language, voices)
           ELSE sanitizeCaseSensitive(Tail(data), language,
                                      Append(voices, sanitizeVoice(rawVoice)))

\* response.data.forEach(...): the voices pushed so far, and whether reading
\* a record threw (Language missing while a filter is given)
RECURSIVE sanitize(_, _, _)
sanitize(data, language, voices) ==
  IF data = <<>> THEN [threw |-> FALSE, voices |-> voices]
  ELSE LET rawVoice == Head(data)
       IN  IF TruthyString(language) /\ rawVoice.Language = None
             THEN [threw |-> TRUE, voices |-> voices]
           ELSE IF TruthyString(language)
                   /\ toLowerCase(rawVoice.Language[1]) # toLowerCase(language[1])
             THEN sanitize(Tail(data), language, voices)
           ELSE sanitize(Tail(data), language,
                         Append(voices, sanitizeVoice(rawVoice)))

\* ---------------------------------------------------------- detectLanguage

\* a detectLanguage that takes every non-positive code for "not detected"
detectedLanguageNonPositive(data) ==
  IF data.Language <= 0 THEN None
  ELSE Some([name |-> data.LanguageName, cultures |-> data.Cultures])

\* the value detectLanguage returns for a reply: null (None) or a Language
detectedLanguage(data) ==
  IF data.Language = -1 THEN None
  ELSE Some([name |-> data.LanguageName, cultures |-> data.Cultures])

\* ------------------------------------------------------------------ inputs

\* values a caller may pass for each option (valid ones, ones outside the
\* declared range or enumeration, and the falsy values "" and 0)
OptionValues ==
  [f \in OptionFields \ {"key"} |->
     CASE f = "format"           -> {"mp3", "wav", "ogg", ""}
       [] f = "fallbackLanguage" -> {"en-US"}
       [] f = "voice"            -> {VoiceString("David"), VoiceString(""),
                                     VoiceObject(Some("Zoe"))}
       [] f = "rate"             -> {2}
       [] f = "ssml"             -> {TRUE, FALSE}
       [] f = "whisper"          -> {TRUE, FALSE}
       [] f = "soft"             -> {TRUE}
       [] f = "volume"           -> {-11, 0, 5, 11}
       [] f = "wordBreak"        -> {-1, 500, 1001}
       [] f = "pitch"            -> {-11, 3, 11}]

\* option objects: {}, every object with one property, and some with two
OptionSets ==
  {NoOptions}
  \cup UNION {{[NoOptions EXCEPT ![f] = Some(v)] : v \in OptionValues[f]} :
                f \in OptionFields \ {"key"}}
  \cup {[NoOptions EXCEPT !.format = Some("wav"), !.pitch = Some(3)],
        [NoOptions EXCEPT !.volume = Some(11), !.format = Some("wav")],
        [NoOptions EXCEPT !.whisper = Some(TRUE), !.volume = Some(0)]}

KeyValues == {None, Some(""), Some("k-123")}

\* arguments of new Talkify(...): no argument, or an options object
ConstructorArguments ==
  {None} \cup {Some([o EXCEPT !.key = k]) : o \in OptionSets, k \in KeyValues}

\* the options argument of speech(): omitted, or an options object
SpeechArguments == {None} \cup {Some(o) : o \in OptionSets}

Texts == {"hello"}

\* the language argument of availableVoices(): omitted, "", or a name
LanguageArguments == {None, Some(""), Some("ENGLISH"), Some("french")}

\* replies with an error status (statusText may be missing or empty), and
\* no reply at all
ErrorResponses ==
  {None} \cup {Some([status |-> st, statusText |-> tx, data |-> None]) :
                 st \in {404, 500},
                 tx \in {None, Some(""), Some("Internal Server Error")}}

\* a reply with a success status and the body data
Ok(data) == Some([status |-> 200, statusText |-> Some("OK"), data |-> data])

VoiceResponse(name, language, formats) ==
  [Culture |-> "en-GB", Name |-> name, Description |-> name,
   IsStandard |-> TRUE, IsPremium |-> FALSE, IsExclusive |-> FALSE,
   IsNeural |-> TRUE, CanUseSpeechMarks |-> TRUE, CanWhisper |-> FALSE,
   CanUseWordBreak |-> TRUE, CanSpeakSoftly |-> FALSE, CanUseVolume |-> TRUE,
   CanUsePitch |-> TRUE, SupportsSpeechMarks |-> TRUE, Gender |-> "Female",
   StandardVoice |-> TRUE, SupportedFormats |-> formats, Language |-> language]

\* records of the provider's voices reply; the last one lacks Language
VoiceResponses ==
  {VoiceResponse("Zoe", Some("English"), <<"MP3", "WAV">>),
   VoiceResponse("Hugo", Some("French"), <<"mp3">>),
   VoiceResponse("Amy", Some("ENGLISH"), <<"Wav">>),
   VoiceResponse("Odd", None, <<"MP3">>)}

\* the provider's voices replies: lists of at most MaxVoices records, and a
\* reply whose body is no list (None)
VoicesData ==
  {None} \cup {Some(l) : l \in UNION {[1..n -> VoiceResponses] : n \in 0..MaxVoices}}

\* the provider's detection replies, and a reply with no body (None)
DetectData ==
  {None} \cup
  {Some([SpecialCharacters |-> <<>>, Language |-> code,
         Cultures |-> cultures, LanguageName |-> "French"]) :
     code \in {-1, 0, 2},
     cultures \in {<<>>, <<"fr-FR", "fr-CA">>, <<"fr-CA", "fr-FR">>}}

\* ------------------------------------------------------------------- state

VARIABLES
  defaultOptions,  \* this.defaultOptions: None until the constructor returns
  connector,       \* this.connector: None until the constructor returns
  calls,           \* per slot: the pending invocation and the requests it sent
  event            \* what the last step showed its caller or the transport

vars == <<defaultOptions, connector, calls, event>>

Idle == [op |-> "idle", language |-> None, requests |-> 0]

Event(kind, op, call, args, request, response, value, error) ==
  [kind |-> kind, op |-> op, call |-> call, args |-> args, request |-> request,
   response |-> response, value |-> value, error |-> error]

NoEvent == Event("none", "none", 0, None, None, None, None, None)

Init ==
  /\ defaultOptions = None
  /\ connector = None
  /\ calls = [i \in Calls |-> Idle]
  /\ event = NoEvent

\* The caller takes note of the outcome of the last step (the value returned
\* or the error thrown, the request handed to the transport) before the next
\* step of the program is taken.
Observed ==
  /\ event # NoEvent
  /\ event' = NoEvent
  /\ UNCHANGED <<defaultOptions, connector, calls>>

\* ------------------------------------------------------------- constructor

\* new Talkify(options)
Construct(options) ==
  /\ event = NoEvent
  /\ connector = None
  /\ LET made == Constructor(options)
     IN  IF made.thrown # None
           THEN /\ event' = Event("thrown", "constructor", 0, options, None,
                                  None, None, made.thrown)
                /\ UNCHANGED <<defaultOptions, connector, calls>>
         ELSE /\ defaultOptions' = made.defaultOptions
              /\ connector' = made.connector
              /\ event' = Event("constructed", "constructor", 0, options, None,
                                None, None, None)
              /\ UNCHANGED calls

\* ------------------------------------------------------------------ speech

Pending(op, language) == [op |-> op, language |-> language, requests |-> 1]

\* this.connector.post('speech/v1', body, {responseType: 'stream'})
SpeechRequest(text, options) ==
  [method |-> "POST", url |-> "speech/v1",
   body |-> Some(speechBody(text, options, defaultOptions[1])),
   params |-> None, xApiKey |-> connector[1].xApiKey]

\* a speech() that keeps the options it was called with as the new defaults
speechStoresOptions(i, text, options) ==
  /\ event = NoEvent
  /\ connector # None
  /\ calls[i].op = "idle"
  /\ LET invalid == validateOptions(options)
     IN  IF invalid # None
           THEN /\ event' = Event("refused", "speech", i, options, None, None,
                                  None, invalid)
                /\ UNCHANGED <<defaultOptions, connector, calls>>
         ELSE /\ calls' = [calls EXCEPT ![i] = Pending("speech", None)]
              /\ event' = Event("sent", "speech", i, options,
                                Some(SpeechRequest(text, options)), None, None,
                                None)
              /\ defaultOptions' =
                   Some([f \in OptionFields |->
                           Coalesce(Get(options, f), defaultOptions[1][f])])
              /\ UNCHANGED connector

\* speech(text, options) up to its await: validation, then the request
speech(i, text, options) ==
  /\ event = NoEvent
  /\ connector # None
  /\ calls[i].op = "idle"
  /\ LET invalid == validateOptions(options)
     IN  IF invalid # None
           THEN /\ event' = Event("refused", "speech", i, options, None, None,
                                  None, invalid)
                /\ UNCHANGED <<defaultOptions, connector, calls>>
         ELSE /\ calls' = [calls EXCEPT ![i] = Pending("speech", None)]
              /\ event' = Event("sent", "speech", i, options,
                                Some(SpeechRequest(text, options)), None, None,
                                None)
              /\ UNCHANGED <<defaultOptions, connector>>

\* the request succeeded: return response.data
speechResolved(i) ==
  /\ event = NoEvent
  /\ calls[i].op = "speech"
  /\ calls' = [calls EXCEPT ![i] = Idle]
  /\ event' = Event("resolved", "speech", i, None, None, Ok(Some("stream")),
                    Some("stream"), None)
  /\ UNCHANGED <<defaultOptions, connector>>

\* a catch block that sends the request again
speechRejectedRetries(i, response) ==
  /\ event = NoEvent
  /\ calls[i].op = "speech"
  /\ calls' = [calls EXCEPT ![i].requests = @ + 1]
  /\ event' = Event("sent", "speech", i, None,
                    Some(SpeechRequest("hello", None)), None, None, None)
  /\ UNCHANGED <<defaultOptions, connector>>

\* the request failed: the catch block
speechRejected(i, response) ==
  /\ event = NoEvent
  /\ calls[i].op = "speech"
  /\ calls' = [calls EXCEPT ![i] = Idle]
  /\ event' = Event("rejected", "speech", i, None, None, response, None,
                    Some(Catch(AxiosError(response), SpeechFallback)))
  /\ UNCHANGED <<defaultOptions, connector>>

\* --------------------------------------------------------- availableVoices

\* availableVoices(language) up to its await
availableVoices(i, language) ==
  /\ event = NoEvent
  /\ connector # None
  /\ calls[i].op = "idle"
  /\ calls' = [calls EXCEPT ![i] = Pending("availableVoices", language)]
  /\ event' = Event("sent", "availableVoices", i, language,
                    Some([method |-> "GET", url |-> "speech/v1/voices",
                          body |-> None,
                          params |-> Some([key |-> defaultOptions[1].key]),
                          xApiKey |-> connector[1].xApiKey]),
                    None, None, None)
  /\ UNCHANGED <<defaultOptions, connector>>

\* the request succeeded: sanitize the reply; a TypeError raised on the way
\* lands in the catch block
availableVoicesResolved(i, data) ==
  /\ event = NoEvent
  /\ calls[i].op = "availableVoices"
  /\ calls' = [calls EXCEPT ![i] = Idle]
  /\ LET language == calls[i].language
         done == IF data = None THEN [threw |-> TRUE, voices |-> <<>>]
                 ELSE sanitize(data[1], language, <<>>)
     IN  IF done.threw
           THEN event' = Event("rejected", "availableVoices", i, language, None,
                               Ok(data), None,
                               Some(Catch(TypeError, VoicesFallback)))
         ELSE event' = Event("resolved", "availableVoices", i, language, None,
                             Ok(data), Some(done.voices), None)
  /\ UNCHANGED <<defaultOptions, connector>>

\* the request failed: the catch block
availableVoicesRejected(i, response) ==
  /\ event = NoEvent
  /\ calls[i].op = "availableVoices"
  /\ calls' = [calls EXCEPT ![i] = Idle]
  /\ event' = Event("rejected", "availableVoices", i, calls[i].language, None,
                    response, None,
                    Some(Catch(AxiosError(response), VoicesFallback)))
  /\ UNCHANGED <<defaultOptions, connector>>

\* ---------------------------------------------------------- detectLanguage

\* detectLanguage(text) up to its await
detectLanguage(i, text) ==
  /\ event = NoEvent
  /\ connector # None
  /\ calls[i].op = "idle"
  /\ calls' = [calls EXCEPT ![i] = Pending("detectLanguage", None)]
  /\ event' = Event("sent", "detectLanguage", i, Some(text),
                    Some([method |-> "GET", url |-> "language/v1/detect",
                          body |-> None,
                          params |-> Some([text |-> text,
                                           key |-> defaultOptions[1].key]),
                          xApiKey |-> connector[1].xApiKey]),
                    None, None, None)
  /\ UNCHANGED <<defaultOptions, connector>>

\* the request succeeded: null, or the Language; reading a missing body
\* raises a TypeError, which lands in the catch block
detectLanguageResolved(i, data) ==
  /\ event = NoEvent
  /\ calls[i].op = "detectLanguage"
  /\ calls' = [calls EXCEPT ![i] = Idle]
  /\ IF data = None
       THEN event' = Event("rejected", "detectLanguage", i, None, None,
                           Ok(data), None,
                           Some(Catch(TypeError, DetectFallback)))
     ELSE event' = Event("resolved", "detectLanguage", i, None, None, Ok(data),
                         detectedLanguage(data[1]), None)
  /\ UNCHANGED <<defaultOptions, connector>>

\* the request failed: the catch block
detectLanguageRejected(i, response) ==
  /\ event = NoEvent
  /\ calls[i].op = "detectLanguage"
  /\ calls' = [calls EXCEPT ![i] = Idle]
  /\ event' = Event("rejected", "detectLanguage", i, None, None, response,
                    None, Some(Catch(AxiosError(response), DetectFallback)))
  /\ UNCHANGED <<defaultOptions, connector>>

\* ----------------------------------------------------------- specification

Next ==
  \/ Observed
  \/ \E options \in ConstructorArguments : Construct(options)
  \/ \E i \in Calls, text \in Texts, options \in SpeechArguments :
       speech(i, text, options)
  \/ \E i \in Calls : speechResolved(i)
  \/ \E i \in Calls, response \in ErrorResponses : speechRejected(i, response)
  \/ \E i \in Calls, language \in LanguageArguments : availableVoices(i, language)
  \/ \E i \in Calls, data \in VoicesData : availableVoicesResolved(i, data)
  \/ \E i \in Calls, response \in ErrorResponses :
       availableVoicesRejected(i, response)
  \/ \E i \in Calls, text \in Texts : detectLanguage(i, text)
  \/ \E i \in Calls, data \in DetectData : detectLanguageResolved(i, data)
  \/ \E i \in Calls, response \in ErrorResponses :
       detectLanguageRejected(i, response)

Spec == Init /\ [][Next]_vars

\* ------------------------------------------------------------------ claims

\* the step just taken was a call of the constructor or of speech()
CallEvent ==
  \/ event.op = "constructor" /\ event.kind \in {"thrown", "constructed"}
  \/ event.op = "speech" /\ event.kind \in {"refused", "sent"}

\* an options argument with a value outside its declared range or enumeration
OutsideDomain(options) ==
  \/ Get(options, "format") # None /\ Get(options, "format")[1] \notin {"mp3", "wav"}
  \/ Get(options, "volume") # None
       /\ (Get(options, "volume")[1] < -10 \/ Get(options, "volume")[1] > 10)
  \/ Get(options, "pitch") # None
       /\ (Get(options, "pitch")[1] < -10 \/ Get(options, "pitch")[1] > 10)
  \/ Get(options, "wordBreak") # None
       /\ (Get(options, "wordBreak")[1] < 0 \/ Get(options, "wordBreak")[1] > 1000)

\* the step just taken failed: an error reached the caller
Failed == event.kind \in {"thrown", "refused", "rejected"}

\* C1: a constructor call (with a key; C2 covers the call without one) or a
\* speech() call whose options hold a volume or pitch outside [-10,10], a
\* wordBreak outside [0,1000] or a format other than mp3 and wav fails with a
\* TalkifyError named VALIDATION_ERROR, and sends no request.
C1_InvalidOptionsAreRefused ==
  ( /\ CallEvent
    /\ OutsideDomain(event.args)
    /\ event.op = "constructor" => TruthyString(Get(event.args, "key")) )
  => /\ Failed
     /\ event.error # None
     /\ event.error[1].class = "TalkifyError"
     /\ event.error[1].name = ValidationError
     /\ event.request = None
     /\ event.op = "speech" => calls[event.call] = Idle

\* C2: constructing with no argument, or with an absent or empty key, fails
\* with KEY_MISSING whatever the other options are (so before they are
\* validated), and leaves no connector and no stored options.
C2_KeyMissingBeforeValidation ==
  ( /\ event.op = "constructor"
    /\ (Get(event.args, "key") = None \/ Get(event.args, "key") = Some("")) )
  => /\ event.kind = "thrown"
     /\ event.error # None
     /\ event.error[1].class = "TalkifyError"
     /\ event.error[1].name = KeyMissing
     /\ connector = None
     /\ defaultOptions = None

\* a constructor call without a key whose options are invalid as well
C2_Witness ==
  /\ event.op = "constructor"
  /\ event.kind = "thrown"
  /\ event.args # None
  /\ event.args[1].key = Some("")
  /\ OutsideDomain(event.args)
  /\ event.error[1].name = KeyMissing

\* C3: the stored defaults of a constructed client have a format among mp3
\* and wav, a volume and a pitch within [-10,10] and a wordBreak within
\* [0,1000] when present, and a non-empty key.
C3_StoredDefaultsAreValid ==
  connector # None =>
    /\ defaultOptions # None
    /\ defaultOptions[1].format # None
    /\ defaultOptions[1].format[1] \in {"mp3", "wav"}
    /\ ~OutsideDomain(defaultOptions)
    /\ defaultOptions[1].key # None
    /\ defaultOptions[1].key[1] # ""

\* the fields of the request body that are resolved as override ?? default,
\* with the option each comes from
BodyFields ==
  {<<"Format", "format">>, <<"FallbackLanguage", "fallbackLanguage">>,
   <<"Rate", "rate">>, <<"Whisper", "whisper">>, <<"Soft", "soft">>,
   <<"Volume", "volume">>, <<"WordBreakMs", "wordBreak">>,
   <<"Pitch", "pitch">>}

\* the value of option f for the call just made: the override when the call
\* supplies one, else the stored default
Resolved(f) ==
  IF Get(event.args, f) # None THEN Get(event.args, f) ELSE defaultOptions[1][f]

SpeechSent == event.op = "speech" /\ event.kind = "sent"

\* C4 as stated: every field of the request body, Voice included, equals the
\* override when supplied and the stored default otherwise.
C4_EveryFieldIsOverrideOrDefault ==
  SpeechSent =>
    /\ \A p \in BodyFields : event.request[1].body[1][p[1]] = Resolved(p[2])
    /\ IF Resolved("voice") = None
         THEN event.request[1].body[1].Voice = None
       ELSE /\ Resolved("voice")[1].typeof = "string"
            /\ event.request[1].body[1].Voice = Some(Resolved("voice")[1].string)

\* C4, amended: Format, FallbackLanguage, Rate, Whisper, Soft, Volume,
\* WordBreakMs and Pitch each equal the override when supplied and the stored
\* default otherwise; Voice is taken from the voice selector resolved the same
\* way: the selector itself when it is a string, its name when it is a Voice
\* record, nothing when there is none.
C4_FieldsResolvedIndependently ==
  SpeechSent =>
    /\ \A p \in BodyFields : event.request[1].body[1][p[1]] = Resolved(p[2])
    /\ IF Resolved("voice") = None
         THEN event.request[1].body[1].Voice = None
       ELSE IF Resolved("voice")[1].typeof = "string"
         THEN event.request[1].body[1].Voice = Some(Resolved("voice")[1].string)
       ELSE event.request[1].body[1].Voice = Resolved("voice")[1].name

\* a call that overrides whisper only, on a client whose defaults set a
\* pitch: the request carries the override and the default pitch
C4_Witness ==
  /\ SpeechSent
  /\ event.args # None
  /\ event.args[1].whisper = Some(FALSE)
  /\ event.args[1].pitch = None
  /\ defaultOptions[1].pitch = Some(3)
  /\ defaultOptions[1].format = Some("wav")
  /\ event.request[1].body[1].Pitch = Some(3)
  /\ event.request[1].body[1].Format = Some("wav")
  /\ event.request[1].body[1].Whisper = Some(FALSE)

\* the fallback messages as the specification words them
ClaimedFallback(op) ==
  CASE op = "speech"          -> "Could not synthesize the audio"
    [] op = "availableVoices" -> "Could not fetch the voices list"
    [] op = "detectLanguage"  -> "Could not fetch the language detection response"

\* the step just taken was a request failing in the transport: no reply, or
\* a reply with an error status
TransportFailed ==
  /\ event.kind = "rejected"
  /\ (event.response = None \/ event.response[1].status >= 400)

\* C5: a transport failure is delivered as a TalkifyError named REQUEST_ERROR
\* whose statusCode is the reply's status (when there is a reply) and whose
\* message is the reply's status text or, without one, the operation's
\* fallback message.
C5_RequestErrorCarriesStatusAndMessage ==
  TransportFailed =>
    /\ event.error # None
    /\ event.error[1].class = "TalkifyError"
    /\ event.error[1].name = RequestError
    /\ event.error[1].statusCode =
         (IF event.response = None THEN None ELSE Some(event.response[1].status))
    /\ event.error[1].message =
         (IF event.response # None /\ event.response[1].statusText # None
            THEN event.response[1].statusText[1]
          ELSE ClaimedFallback(event.op))

\* C6: once the client is constructed, no step of speech(), availableVoices()
\* or detectLanguage() (call, success or failure, whatever else is pending)
\* changes the stored default options or the connector.
C6_DefaultsNeverChange ==
  [][connector # None =>
       /\ defaultOptions' = defaultOptions
       /\ connector' = connector]_vars

\* a speech() call overriding the format sent its request while another
\* invocation is pending, and the stored format is still the default's
C6_Witness ==
  /\ SpeechSent
  /\ event.args # None
  /\ event.args[1].format = Some("wav")
  /\ event.request[1].body[1].Format = Some("wav")
  /\ defaultOptions[1].format = Some("mp3")
  /\ \E j \in Calls : j # event.call /\ calls[j].op # "idle"

\* strings that differ in letter case only
CaseClasses ==
  {{"English", "ENGLISH", "english"}, {"French", "FRENCH", "french"},
   {"MP3", "mp3"}, {"WAV", "Wav", "wav"}}

SameIgnoringCase(a, b) == a = b \/ \E c \in CaseClasses : {a, b} \subseteq c

LowerCaseStrings == {"", "english", "french", "mp3", "wav"}

\* voice is the normalized image of the provider's record rawVoice
IsImage(voice, rawVoice) ==
  /\ voice.culture = rawVoice.Culture
  /\ voice.name = rawVoice.Name
  /\ voice.gender = rawVoice.Gender
  /\ voice.language = rawVoice.Language
  /\ voice.description = rawVoice.Description
  /\ voice.isStandard = rawVoice.IsStandard
  /\ voice.isPremium = rawVoice.IsPremium
  /\ voice.isExclusive = rawVoice.IsExclusive
  /\ voice.isNeural = rawVoice.IsNeural
  /\ voice.canUseSpeechMarks = rawVoice.CanUseSpeechMarks
  /\ voice.canWhisper = rawVoice.CanWhisper
  /\ voice.canUseWordBreak = rawVoice.CanUseWordBreak
  /\ voice.canSpeakSoftly = rawVoice.CanSpeakSoftly
  /\ voice.canUseVolume = rawVoice.CanUseVolume
  /\ voice.canUsePitch = rawVoice.CanUsePitch
  /\ Len(voice.supportedFormats) = Len(rawVoice.SupportedFormats)
  /\ \A k \in 1..Len(voice.supportedFormats) :
       /\ voice.supportedFormats[k] \in LowerCaseStrings
       /\ SameIgnoringCase(voice.supportedFormats[k], rawVoice.SupportedFormats[k])

\* voices holds the images of the records of kept, in the order of kept
AreImages(voices, kept) ==
  /\ Len(voices) = Len(kept)
  /\ \A k \in 1..Len(kept) : IsImage(voices[k], kept[k])

\* the records of data whose Language equals language but for letter case
Matching(data, language) ==
  SelectSeq(data, LAMBDA r : r.Language # None
                             /\ SameIgnoringCase(r.Language[1], language))

VoicesReturned == event.op = "availableVoices" /\ event.kind = "resolved"

\* C7 as stated: availableVoices(language) returns the images of the records
\* matching the filter whenever a filter is passed, and of all records when
\* none is.
C7_FilterWheneverSupplied ==
  VoicesReturned =>
    AreImages(event.value[1],
              IF event.args = None THEN event.response[1].data[1]
              ELSE Matching(event.response[1].data[1], event.args[1]))

\* C7, amended: availableVoices(language) returns, in the order of the reply,
\* the normalized images (supportedFormats lowercased) of the records whose
\* Language equals language but for letter case when language is a non-empty
\* string, and of all records when language is omitted or the empty string.
C7_StableCaseInsensitiveFilter ==
  VoicesReturned =>
    AreImages(event.value[1],
              IF event.args = None \/ event.args = Some("")
                THEN event.response[1].data[1]
              ELSE Matching(event.response[1].data[1], event.args[1]))

\* a reply of two records, the first of another language, filtered by a
\* name in another letter case: one voice, its formats lowercased
C7_Witness ==
  /\ VoicesReturned
  /\ event.args = Some("ENGLISH")
  /\ Len(event.response[1].data[1]) = 2
  /\ event.response[1].data[1][1].Language = Some("French")
  /\ event.response[1].data[1][2].Language = Some("English")
  /\ Len(event.value[1]) = 1
  /\ event.value[1][1].name = "Zoe"
  /\ event.value[1][1].supportedFormats = <<"mp3", "wav">>

\* the step just taken handled a detection reply that has a body
DetectReplied ==
  /\ event.op = "detectLanguage"
  /\ event.kind \in {"resolved", "rejected"}
  /\ event.response # None
  /\ event.response[1].status = 200
  /\ event.response[1].data # None

\* C8: detectLanguage() returns null (and does not fail) for a reply whose
\* Language is -1, and for any other Language returns the reply's
\* LanguageName as name and its Cultures, same content and order, as
\* cultures.
C8_NullOnlyForMinusOne ==
  DetectReplied =>
    /\ event.kind = "resolved"
    /\ event.response[1].data[1].Language = -1 => event.value = None
    /\ event.response[1].data[1].Language # -1 =>
         /\ event.value # None
         /\ event.value[1].name = event.response[1].data[1].LanguageName
         /\ event.value[1].cultures = event.response[1].data[1].Cultures

\* the reply Language 0, French, fr-CA before fr-FR is returned as a Language
C8_Witness ==
  /\ DetectReplied
  /\ event.response[1].data[1].Language = 0
  /\ event.response[1].data[1].Cultures = <<"fr-CA", "fr-FR">>
  /\ event.value = Some([name |-> "French", cultures |-> <<"fr-CA", "fr-FR">>])

\* C9: a request is sent only by the call of an operation, on a slot that had
\* none pending, and it is that invocation's only request; a success or a
\* failure ends the invocation it belongs to, which sent exactly one request,
\* sends nothing further and leaves every other invocation as it was.
C9_OneRequestPerInvocation ==
  [][/\ event'.kind = "sent" =>
          /\ calls[event'.call].op = "idle"
          /\ calls'[event'.call].op = event'.op
          /\ calls'[event'.call].requests = 1
     /\ event'.kind \in {"resolved", "rejected"} =>
          /\ calls[event'.call].op = event'.op
          /\ calls[event'.call].requests = 1
          /\ calls'[event'.call] = Idle
          /\ event'.request = None
     /\ event'.kind \in {"refused", "none"} => calls' = calls
     /\ \A j \in Calls : j # event'.call => calls'[j] = calls[j]]_vars

\* a failed request was delivered to its invocation while another invocation
\* is still pending with its one request
C9_Witness ==
  /\ event.kind = "rejected"
  /\ event.response # None
  /\ event.response[1].status = 500
  /\ calls[event.call] = Idle
  /\ \E j \in Calls : calls[j].op # "idle" /\ calls[j].requests = 1

\* C10: every failure of the constructor or of an operation reaches the caller
\* as a TalkifyError named KEY_MISSING, VALIDATION_ERROR or REQUEST_ERROR;
\* KEY_MISSING comes from the constructor only, and statusCode is set only on
\* a REQUEST_ERROR.
C10_FailuresAreTalkifyErrors ==
  Failed =>
    /\ event.error # None
    /\ event.error[1].class = "TalkifyError"
    /\ event.error[1].name \in TalkifyErrors
    /\ event.error[1].name = KeyMissing => event.op = "constructor"
    /\ event.error[1].statusCode # None => event.error[1].name = RequestError

\* a voices reply with a record that cannot be read is delivered as a
\* REQUEST_ERROR without a statusCode
C10_Witness ==
  /\ event.kind = "rejected"
  /\ event.op = "availableVoices"
  /\ event.response # None
  /\ event.response[1].status = 200
  /\ event.error[1].name = RequestError
  /\ event.error[1].statusCode = None

\* C11: the stored ssml default is the constructor's ssml option, or true
\* when the constructor was given none; in every speech() request TextType is
\* the number 1 when the markup flag (the call's ssml when supplied, else the
\* stored default) is true and the number 0 when it is false.
C11_TextTypeEncodesMarkupFlag ==
  /\ event.kind = "constructed" =>
       defaultOptions[1].ssml =
         (IF event.args[1].ssml # None THEN event.args[1].ssml ELSE Some(TRUE))
  /\ SpeechSent =>
       /\ Resolved("ssml") # None
       /\ event.request[1].body[1].TextType \in {0, 1}
       /\ event.request[1].body[1].TextType = 1 <=> Resolved("ssml")[1] = TRUE
       /\ event.request[1].body[1].TextType = 0 <=> Resolved("ssml")[1] = FALSE

\* a call that turns markup off on a client whose default is on sends 0
C11_Witness ==
  /\ SpeechSent
  /\ event.args # None
  /\ event.args[1].ssml = Some(FALSE)
  /\ defaultOptions[1].ssml = Some(TRUE)
  /\ event.request[1].body[1].TextType = 0

\* C12: in every speech() request Voice comes from the voice selector of the
\* call when it supplies one, else from the stored default: the name of the
\* selector when it is a Voice record, the selector unchanged when it is a
\* string, and no value when neither supplies a selector.
C12_VoiceFromResolvedSelector ==
  SpeechSent =>
    CASE Resolved("voice") = None ->
           /\ Get(event.args, "voice") = None
           /\ defaultOptions[1].voice = None
           /\ event.request[1].body[1].Voice = None
      [] Resolved("voice") # None /\ Resolved("voice")[1].typeof = "object" ->
           event.request[1].body[1].Voice = Resolved("voice")[1].name
      [] Resolved("voice") # None /\ Resolved("voice")[1].typeof = "string" ->
           event.request[1].body[1].Voice = Some(Resolved("voice")[1].string)

\* a call without a voice on a client whose default voice is a Voice record
\* sends the record's name
C12_Witness ==
  /\ SpeechSent
  /\ Get(event.args, "voice") = None
  /\ defaultOptions[1].voice = Some(VoiceObject(Some("Zoe")))
  /\ event.request[1].body[1].Voice = Some("Zoe")

====
